---- MODULE Spec2Model ----
(***************************************************************************)
(* GitHub portfolio analyzer: the /analyze/{username} request pipeline     *)
(* (routes.py) and the scoring heuristics it composes (analyzer_service,   *)
(* score_calculator, recruiter_simulator, roadmap_generator).              *)
(*                                                                         *)
(* Numbers.  Python floats are modelled by exact rationals <<num, den>>    *)
(* with den > 0; a value rounded with round(x, 2) is an integer number of  *)
(* hundredths.  Times are integer hours; a timedelta's .days is the floor  *)
(* of the hour difference divided by HoursPerDay.                          *)
(* Descriptive pass-through fields of a repository (full_name, url,        *)
(* description, open_issues, created_at, updated_at) carry no logic and    *)
(* are left out of the records.                                            *)
(***************************************************************************)
EXTENDS Integers, Sequences, FiniteSets, TLC

(***************************************************************************)
(* Bounds of the model.                                                    *)
(***************************************************************************)
\* longest repository list built freely from the catalogue of repositories
MaxShortList == 3
\* how far the long repository lists exceed MAX_REPOS_TO_ANALYZE
MaxExtra == 1
\* how many times the clock advances in one behaviour
MaxTicks == 1
\* longest repository list of the behaviours with a failing endpoint
MaxFailList == 2
\* longest repository list of the behaviours that repeat a request
MaxRepeatList == 1

(***************************************************************************)
(* Program constants.                                                      *)
(***************************************************************************)
MAX_REPOS_TO_ANALYZE == 20
ACTIVE_DAYS_THRESHOLD == 30
HoursPerDay == 24
\* SCORING_WEIGHTS, in hundredths
W_documentation == 25
W_code_quality == 25
W_consistency == 20
W_impact == 20
W_depth == 10

recruiter_personalities ==
    <<"Technical Recruiter", "Hiring Manager", "Tech Lead", "HR Specialist">>

(***************************************************************************)
(* Generic helpers.                                                        *)
(***************************************************************************)
Min(a, b) == IF a <= b THEN a ELSE b

Range(s) == {s[i] : i \in 1..Len(s)}

\* s[:k] of Python
Take(s, k) == SubSeq(s, 1, Min(k, Len(s)))

RECURSIVE SumSeq(_)
SumSeq(s) == IF s = <<>> THEN 0 ELSE Head(s) + SumSeq(Tail(s))

\* number of indices of s whose element satisfies P
CountIf(s, P(_)) == Cardinality({i \in 1..Len(s) : P(s[i])})

\* round(num/den, 2) of Python as a number of hundredths: nearest, ties to even
Round2(r) ==
    LET n == 100 * r[1]
        d == r[2]
        q == n \div d
        m == n % d
    IN  IF 2 * m < d THEN q
        ELSE IF 2 * m > d THEN q + 1
        ELSE IF q % 2 = 0 THEN q ELSE q + 1

\* r >= k for a rational r and an integer k
RatGeq(r, k) == r[1] >= k * r[2]

RatMin(r, k) == IF RatGeq(r, k) THEN <<k, 1>> ELSE r

RECURSIVE GCD(_, _)
GCD(a, b) == IF b = 0 THEN a ELSE GCD(b, a % b)

\* a rational in lowest terms
Norm(r) == LET g == GCD(r[1], r[2]) IN <<r[1] \div g, r[2] \div g>>

RatAdd(a, b) == Norm(<<a[1] * b[2] + b[1] * a[2], a[2] * b[2]>>)

\* r * k / d
RatScale(r, k, d) == Norm(<<r[1] * k, r[2] * d>>)

(***************************************************************************)
(* helpers.py                                                              *)
(***************************************************************************)
\* A username is a sequence of characters, each "a" (alphanumeric), "-" or
\* "_" (any other character).  The pattern: one alphanumeric, then up to 38
\* more characters, each alphanumeric or a hyphen followed by an alphanumeric.
validate_github_username(username) ==
    /\ username # <<>>
    /\ Len(username) <= 39
    /\ username[1] = "a"
    /\ \A i \in 2..Len(username) :
          \/ username[i] = "a"
          \/ username[i] = "-" /\ i < Len(username) /\ username[i + 1] = "a"

(***************************************************************************)
(* analyzer_service.py                                                     *)
(*                                                                         *)
(* A README is [length, words]: its character count and the set of tokens  *)
(* the detector patterns can match in it.  The empty README has length 0.  *)
(* A language mapping is the sequence of its keys in insertion order.      *)
(* A commit list is the sequence of committer dates, newest first.         *)
(* An optional value is <<>> (None) or <<v>>.                              *)
(***************************************************************************)
EmptyReadme == [length |-> 0, words |-> {}]

SetupWords == {"install", "setup", "getting started"}
ExampleWords == {"example", "usage", "demo"}
BadgeWords == {"![badge](url)"}
ApiWords == {"api", "endpoint", "route"}

\* the record returned for an empty README has no has_api_documentation key
_analyze_documentation(readme_content) ==
    IF readme_content.length = 0
    THEN [has_readme |-> FALSE,
          readme_length |-> 0,
          has_setup_instructions |-> FALSE,
          has_examples |-> FALSE,
          has_badges |-> FALSE,
          quality_score |-> 0]
    ELSE LET has_setup == readme_content.words \cap SetupWords # {}
             has_examples == readme_content.words \cap ExampleWords # {}
             has_badges == readme_content.words \cap BadgeWords # {}
             has_api_docs == readme_content.words \cap ApiWords # {}
             quality_score ==
                 (IF readme_content.length > 500 THEN 30
                  ELSE IF readme_content.length > 200 THEN 15 ELSE 0)
                 + (IF has_setup THEN 20 ELSE 0)
                 + (IF has_examples THEN 20 ELSE 0)
                 + (IF has_badges THEN 15 ELSE 0)
                 + (IF has_api_docs THEN 15 ELSE 0)
         IN  [has_readme |-> TRUE,
              readme_length |-> readme_content.length,
              has_setup_instructions |-> has_setup,
              has_examples |-> has_examples,
              has_badges |-> has_badges,
              has_api_documentation |-> has_api_docs,
              quality_score |-> Min(quality_score, 100)]

_analyze_code_structure(repo_data, languages) ==
    [primary_language |-> repo_data.language,
     languages_used |-> languages,
     language_diversity |-> Len(languages),
     has_multiple_languages |-> Len(languages) > 1,
     has_wiki_enabled |-> repo_data.has_wiki]

\* variant of _analyze_activity: a frequency of exactly 0.5 already earns
\* the 30 points
_analyze_activity_lenient(commits, now) ==
    IF commits = <<>>
    THEN [total_commits_recent |-> 0,
          commit_frequency |-> 0,
          last_commit_date |-> <<>>,
          is_active |-> FALSE,
          activity_score |-> 0]
    ELSE LET commit_dates == commits
             days_diff == (commit_dates[1] - commit_dates[Len(commit_dates)])
                              \div HoursPerDay
             commit_frequency ==
                 IF Len(commit_dates) > 1
                 THEN IF days_diff > 0 THEN <<Len(commits), days_diff>>
                      ELSE <<Len(commits), 1>>
                 ELSE <<1, 1>>
             last_commit == commit_dates[1]
             days_since_last_commit == (now - last_commit) \div HoursPerDay
             is_active == days_since_last_commit < ACTIVE_DAYS_THRESHOLD
             activity_score ==
                 (IF is_active THEN 40 ELSE 0)
                 + (IF 2 * commit_frequency[1] >= commit_frequency[2] THEN 30
                    ELSE IF 10 * commit_frequency[1] > commit_frequency[2]
                         THEN 15 ELSE 0)
                 + Min(Len(commits), 30)
         IN  [total_commits_recent |-> Len(commits),
              commit_frequency |-> Round2(commit_frequency),
              last_commit_date |-> <<commit_dates[1]>>,
              days_since_last_commit |-> <<days_since_last_commit>>,
              is_active |-> is_active,
              activity_score |-> Min(activity_score, 100)]

\* the record returned for an empty commit list has no
\* days_since_last_commit key
_analyze_activity(commits, now) ==
    IF commits = <<>>
    THEN [total_commits_recent |-> 0,
          commit_frequency |-> 0,
          last_commit_date |-> <<>>,
          is_active |-> FALSE,
          activity_score |-> 0]
    ELSE LET commit_dates == commits
             days_diff == (commit_dates[1] - commit_dates[Len(commit_dates)])
                              \div HoursPerDay
             commit_frequency ==
                 IF Len(commit_dates) > 1
                 THEN IF days_diff > 0 THEN <<Len(commits), days_diff>>
                      ELSE <<Len(commits), 1>>
                 ELSE <<1, 1>>
             last_commit == commit_dates[1]
             days_since_last_commit == (now - last_commit) \div HoursPerDay
             is_active == days_since_last_commit < ACTIVE_DAYS_THRESHOLD
             activity_score ==
                 (IF is_active THEN 40 ELSE 0)
                 + (IF 2 * commit_frequency[1] > commit_frequency[2] THEN 30
                    ELSE IF 10 * commit_frequency[1] > commit_frequency[2]
                         THEN 15 ELSE 0)
                 + Min(Len(commits), 30)
         IN  [total_commits_recent |-> Len(commits),
              commit_frequency |-> Round2(commit_frequency),
              last_commit_date |-> <<commit_dates[1]>>,
              days_since_last_commit |-> <<days_since_last_commit>>,
              is_active |-> is_active,
              activity_score |-> Min(activity_score, 100)]

\* AnalyzerService._get_grade
AnalyzerService_get_grade(score) ==
    IF RatGeq(score, 90) THEN "A"
    ELSE IF RatGeq(score, 80) THEN "B"
    ELSE IF RatGeq(score, 70) THEN "C"
    ELSE IF RatGeq(score, 60) THEN "D"
    ELSE "F"

\* variant of _calculate_repo_score: the weights of documentation and code
\* are exchanged
_calculate_repo_score_swapped(doc_analysis, code_analysis, activity_analysis, repo_data) ==
    LET doc_score == doc_analysis.quality_score
        activity_score == activity_analysis.activity_score
        code_score ==
            Min(50 + (IF code_analysis.has_multiple_languages THEN 20 ELSE 0)
                   + (IF code_analysis.has_wiki_enabled THEN 15 ELSE 0), 100)
        popularity_score ==
            Min(repo_data.stargazers_count * 2 + repo_data.forks_count * 3, 100)
        overall == <<25 * doc_score + 35 * code_score + 25 * activity_score
                       + 15 * popularity_score, 100>>
    IN  [overall |-> Round2(overall),
         documentation |-> doc_score,
         code_quality |-> code_score,
         activity |-> activity_score,
         popularity |-> popularity_score,
         grade |-> AnalyzerService_get_grade(overall)]

_calculate_repo_score(doc_analysis, code_analysis, activity_analysis, repo_data) ==
    LET doc_score == doc_analysis.quality_score
        activity_score == activity_analysis.activity_score
        code_score ==
            Min(50 + (IF code_analysis.has_multiple_languages THEN 20 ELSE 0)
                   + (IF code_analysis.has_wiki_enabled THEN 15 ELSE 0), 100)
        popularity_score ==
            Min(repo_data.stargazers_count * 2 + repo_data.forks_count * 3, 100)
        \* weights 0.35, 0.25, 0.25, 0.15
        overall == <<35 * doc_score + 25 * code_score + 25 * activity_score
                       + 15 * popularity_score, 100>>
    IN  [overall |-> Round2(overall),
         documentation |-> doc_score,
         code_quality |-> code_score,
         activity |-> activity_score,
         popularity |-> popularity_score,
         grade |-> AnalyzerService_get_grade(overall)]

_identify_strengths(repo_data, doc_analysis, activity_analysis) ==
    LET strengths ==
            (IF doc_analysis.quality_score > 70 THEN <<"Excellent documentation">>
             ELSE IF doc_analysis.has_readme THEN <<"Has README">> ELSE <<>>)
            \o (IF repo_data.stargazers_count > 10
                THEN <<"Popular (" \o ToString(repo_data.stargazers_count) \o " stars)">>
                ELSE <<>>)
            \o (IF activity_analysis.is_active THEN <<"Actively maintained">> ELSE <<>>)
            \o (IF repo_data.language # ""
                THEN <<"Built with " \o repo_data.language>> ELSE <<>>)
    IN  Take(strengths, 3)

\* variant of _identify_weaknesses: the list is returned whole
_identify_weaknesses_uncut(repo_data, doc_analysis, activity_analysis) ==
    LET weaknesses ==
            (IF ~doc_analysis.has_readme THEN <<"Missing README">>
             ELSE IF doc_analysis.readme_length < 100 THEN <<"README too brief">>
             ELSE <<>>)
            \o (IF ~doc_analysis.has_setup_instructions
                THEN <<"No setup instructions">> ELSE <<>>)
            \o (IF ~activity_analysis.is_active THEN <<"Inactive repository">> ELSE <<>>)
            \o (IF activity_analysis.total_commits_recent < 5
                THEN <<"Low commit activity">> ELSE <<>>)
    IN  weaknesses

_identify_weaknesses(repo_data, doc_analysis, activity_analysis) ==
    LET weaknesses ==
            (IF ~doc_analysis.has_readme THEN <<"Missing README">>
             ELSE IF doc_analysis.readme_length < 100 THEN <<"README too brief">>
             ELSE <<>>)
            \o (IF ~doc_analysis.has_setup_instructions
                THEN <<"No setup instructions">> ELSE <<>>)
            \o (IF ~activity_analysis.is_active THEN <<"Inactive repository">> ELSE <<>>)
            \o (IF activity_analysis.total_commits_recent < 5
                THEN <<"Low commit activity">> ELSE <<>>)
    IN  Take(weaknesses, 3)

\* analyze_repository, given what its three fetches returned and the time
\* it reads from the clock
analyze_repository(repo_data, readme_content, languages, commits, now) ==
    LET doc_analysis == _analyze_documentation(readme_content)
        code_analysis == _analyze_code_structure(repo_data, languages)
        activity_analysis == _analyze_activity(commits, now)
        repo_score == _calculate_repo_score(doc_analysis, code_analysis,
                                            activity_analysis, repo_data)
    IN  [name |-> repo_data.name,
         stars |-> repo_data.stargazers_count,
         forks |-> repo_data.forks_count,
         languages |-> languages,
         documentation_analysis |-> doc_analysis,
         code_analysis |-> code_analysis,
         activity_analysis |-> activity_analysis,
         score |-> repo_score,
         strengths |-> _identify_strengths(repo_data, doc_analysis, activity_analysis),
         weaknesses |-> _identify_weaknesses(repo_data, doc_analysis, activity_analysis)]

(***************************************************************************)
(* score_calculator.py                                                     *)
(***************************************************************************)
_calculate_documentation_score(repositories) ==
    IF repositories = <<>> THEN <<0, 1>>
    ELSE Norm(<<SumSeq([i \in 1..Len(repositories) |->
                           repositories[i].documentation_analysis.quality_score]),
                Len(repositories)>>)

_calculate_code_quality_score(repositories) ==
    IF repositories = <<>> THEN <<0, 1>>
    ELSE Norm(<<SumSeq([i \in 1..Len(repositories) |->
                           repositories[i].score.code_quality]),
                Len(repositories)>>)

_calculate_consistency_score(repositories, user_data) ==
    IF repositories = <<>> THEN <<0, 1>>
    ELSE LET IsActive(repo) == repo.activity_analysis.is_active
             active_repos == CountIf(repositories, IsActive)
             activity_ratio == <<active_repos, Len(repositories)>>
             recent_activity == user_data.recent_activity
             \* min(recent_activity, 50) / 50 * 20
             activity_bonus == Norm(<<Min(recent_activity, 50) * 20, 50>>)
             score == RatAdd(RatScale(activity_ratio, 80, 1), activity_bonus)
         IN  RatMin(score, 100)

\* variant of _calculate_impact_score: the cap of 100 is forgotten
_calculate_impact_score_uncapped(repositories) ==
    IF repositories = <<>> THEN <<0, 1>>
    ELSE <<2 * SumSeq([i \in 1..Len(repositories) |-> repositories[i].stars])
           + 3 * SumSeq([i \in 1..Len(repositories) |-> repositories[i].forks]), 1>>

\* variant of _calculate_impact_score: the total is averaged over the
\* repositories
_calculate_impact_score_averaged(repositories) ==
    IF repositories = <<>> THEN <<0, 1>>
    ELSE LET total_stars == SumSeq([i \in 1..Len(repositories) |-> repositories[i].stars])
             total_forks == SumSeq([i \in 1..Len(repositories) |-> repositories[i].forks])
         IN  RatMin(Norm(<<total_stars * 2 + total_forks * 3, Len(repositories)>>), 100)

_calculate_impact_score(repositories) ==
    IF repositories = <<>> THEN <<0, 1>>
    ELSE LET total_stars == SumSeq([i \in 1..Len(repositories) |-> repositories[i].stars])
             total_forks == SumSeq([i \in 1..Len(repositories) |-> repositories[i].forks])
         IN  <<Min(total_stars * 2 + total_forks * 3, 100), 1>>

\* the set all_languages both depth and strengths collect
AllLanguages(repositories) ==
    UNION {Range(repositories[i].languages) : i \in 1..Len(repositories)}

\* variant of _calculate_technical_depth_score: each step needs one
\* language more
_calculate_technical_depth_score_strict(repositories) ==
    IF repositories = <<>> THEN <<0, 1>>
    ELSE LET language_count == Cardinality(AllLanguages(repositories))
         IN  IF language_count > 5 THEN <<100, 1>>
             ELSE IF language_count > 3 THEN <<80, 1>>
             ELSE IF language_count > 2 THEN <<60, 1>>
             ELSE IF language_count > 1 THEN <<40, 1>>
             ELSE <<20, 1>>

\* variant of _calculate_technical_depth_score: the empty list is not
\* special-cased and falls through to the zero-language step
_calculate_technical_depth_score_no_guard(repositories) ==
    LET language_count == Cardinality(AllLanguages(repositories))
    IN  IF language_count >= 5 THEN <<100, 1>>
        ELSE IF language_count >= 3 THEN <<80, 1>>
        ELSE IF language_count >= 2 THEN <<60, 1>>
        ELSE IF language_count >= 1 THEN <<40, 1>>
        ELSE <<20, 1>>

_calculate_technical_depth_score(repositories) ==
    IF repositories = <<>> THEN <<0, 1>>
    ELSE LET language_count == Cardinality(AllLanguages(repositories))
         IN  IF language_count >= 5 THEN <<100, 1>>
             ELSE IF language_count >= 3 THEN <<80, 1>>
             ELSE IF language_count >= 2 THEN <<60, 1>>
             ELSE IF language_count >= 1 THEN <<40, 1>>
             ELSE <<20, 1>>

\* variant of _identify_red_flags: half of the repositories without a
\* README already counts as most
_identify_red_flags_half(repositories) ==
    IF repositories = <<>> THEN <<"No public repositories">>
    ELSE LET Inactive(repo) == ~repo.activity_analysis.is_active
             NoReadme(repo) == ~repo.documentation_analysis.has_readme
             total_stars == SumSeq([i \in 1..Len(repositories) |-> repositories[i].stars])
         IN  (IF CountIf(repositories, Inactive) = Len(repositories)
              THEN <<"All repositories are inactive">> ELSE <<>>)
             \o (IF 2 * CountIf(repositories, NoReadme) >= Len(repositories)
                 THEN <<"Most repositories missing README files">> ELSE <<>>)
             \o (IF total_stars = 0
                 THEN <<"No stars on any repositories">> ELSE <<>>)

_identify_red_flags(repositories) ==
    IF repositories = <<>> THEN <<"No public repositories">>
    ELSE LET Inactive(repo) == ~repo.activity_analysis.is_active
             NoReadme(repo) == ~repo.documentation_analysis.has_readme
             inactive_repos == CountIf(repositories, Inactive)
             repos_without_readme == CountIf(repositories, NoReadme)
             total_stars == SumSeq([i \in 1..Len(repositories) |-> repositories[i].stars])
         IN  (IF inactive_repos = Len(repositories)
              THEN <<"All repositories are inactive">> ELSE <<>>)
             \o (IF 2 * repos_without_readme > Len(repositories)
                 THEN <<"Most repositories missing README files">> ELSE <<>>)
             \o (IF total_stars = 0
                 THEN <<"No stars on any repositories">> ELSE <<>>)

_identify_portfolio_strengths(repositories) ==
    LET WellDocumented(repo) == repo.documentation_analysis.quality_score > 70
        well_documented == CountIf(repositories, WellDocumented)
        all_languages == AllLanguages(repositories)
        strengths ==
            (IF Len(repositories) >= 5
             THEN <<"Strong portfolio with " \o ToString(Len(repositories))
                        \o " repositories">>
             ELSE <<>>)
            \o (IF well_documented >= 3
                THEN <<"Multiple well-documented projects">> ELSE <<>>)
            \o (IF Cardinality(all_languages) >= 3
                THEN <<"Demonstrates proficiency in "
                           \o ToString(Cardinality(all_languages))
                           \o " programming languages">>
                ELSE <<>>)
    IN  Take(strengths, 3)

\* ScoreCalculator._get_grade
_get_grade(score) ==
    IF RatGeq(score, 90) THEN "A"
    ELSE IF RatGeq(score, 80) THEN "B"
    ELSE IF RatGeq(score, 70) THEN "C"
    ELSE IF RatGeq(score, 60) THEN "D"
    ELSE "F"

\* the weighted sum of calculate_portfolio_score, before rounding
WeightedOverall(doc_score, code_score, consistency_score, impact_score, depth_score) ==
    RatAdd(RatScale(doc_score, W_documentation, 100),
    RatAdd(RatScale(code_score, W_code_quality, 100),
    RatAdd(RatScale(consistency_score, W_consistency, 100),
    RatAdd(RatScale(impact_score, W_impact, 100),
           RatScale(depth_score, W_depth, 100)))))

calculate_portfolio_score(user_data, repositories) ==
    LET doc_score == _calculate_documentation_score(repositories)
        code_score == _calculate_code_quality_score(repositories)
        consistency_score == _calculate_consistency_score(repositories, user_data)
        impact_score == _calculate_impact_score(repositories)
        depth_score == _calculate_technical_depth_score(repositories)
        overall == WeightedOverall(doc_score, code_score, consistency_score,
                                   impact_score, depth_score)
    IN  [overall |-> Round2(overall),
         components |-> [documentation |-> Round2(doc_score),
                         code_quality |-> Round2(code_score),
                         consistency |-> Round2(consistency_score),
                         impact |-> Round2(impact_score),
                         depth |-> Round2(depth_score)],
         grade |-> _get_grade(overall),
         red_flags |-> _identify_red_flags(repositories),
         strengths |-> _identify_portfolio_strengths(repositories)]

(***************************************************************************)
(* recruiter_simulator.py                                                  *)
(* Scores a PortfolioScore carries are hundredths.  A recommendation or    *)
(* action is named by its task, a goal by its goal sentence: the other     *)
(* fields of each are fixed texts attached to that name.                   *)
(***************************************************************************)
\* the texts are given without their leading emoji
_generate_first_impression(user_data, repositories) ==
    LET name == IF user_data.name # "" THEN user_data.name ELSE user_data.login
        repo_count == Len(repositories)
        GoodReadme(repo) == repo.documentation_analysis.quality_score > 50
        good_readme_count == CountIf(repositories, GoodReadme)
    IN  IF repo_count = 0
        THEN name \o " has no public repositories. This is a major concern."
        ELSE IF 2 * good_readme_count > repo_count
        THEN "Positive first impression! " \o name \o " maintains "
                 \o ToString(good_readme_count) \o " well-documented repositories."
        ELSE IF repo_count >= 3
        THEN name \o " has " \o ToString(repo_count)
                 \o " repositories, but documentation quality varies."
        ELSE "Limited portfolio with only " \o ToString(repo_count)
                 \o " repositories to evaluate."

\* variant of _determine_hire_decision: a score on a cutoff falls into the
\* band below
_determine_hire_decision_strict(portfolio_score) ==
    LET overall_score == portfolio_score.overall
        grade == portfolio_score.grade
    IN  IF overall_score > 8000
        THEN [decision |-> "HIRE", confidence |-> "High",
              reasoning |-> "Strong portfolio with excellent documentation and consistent activity",
              score |-> overall_score, grade |-> grade]
        ELSE IF overall_score > 6000
        THEN [decision |-> "MAYBE", confidence |-> "Medium",
              reasoning |-> "Decent portfolio but needs improvement in key areas",
              score |-> overall_score, grade |-> grade]
        ELSE [decision |-> "REJECT",
              confidence |-> IF overall_score < 4000 THEN "High" ELSE "Medium",
              reasoning |-> "Portfolio lacks critical elements expected from candidates",
              score |-> overall_score, grade |-> grade]

_determine_hire_decision(portfolio_score) ==
    LET overall_score == portfolio_score.overall
        grade == portfolio_score.grade
    IN  IF overall_score >= 8000
        THEN [decision |-> "HIRE", confidence |-> "High",
              reasoning |-> "Strong portfolio with excellent documentation and consistent activity",
              score |-> overall_score, grade |-> grade]
        ELSE IF overall_score >= 6000
        THEN [decision |-> "MAYBE", confidence |-> "Medium",
              reasoning |-> "Decent portfolio but needs improvement in key areas",
              score |-> overall_score, grade |-> grade]
        ELSE [decision |-> "REJECT",
              confidence |-> IF overall_score < 4000 THEN "High" ELSE "Medium",
              reasoning |-> "Portfolio lacks critical elements expected from candidates",
              score |-> overall_score, grade |-> grade]

\* variant of InsertByOverall: equal keys end up in reverse order
RECURSIVE InsertByOverall_unstable(_, _)
InsertByOverall_unstable(repo, sorted) ==
    IF sorted = <<>> THEN <<repo>>
    ELSE IF Head(sorted).score.overall > repo.score.overall
    THEN <<Head(sorted)>> \o InsertByOverall_unstable(repo, Tail(sorted))
    ELSE <<repo>> \o sorted

\* sorted(repositories, key = score.overall, reverse = True): a stable sort,
\* equal keys keep their order in repositories
RECURSIVE InsertByOverall(_, _)
InsertByOverall(repo, sorted) ==
    IF sorted = <<>> THEN <<repo>>
    ELSE IF Head(sorted).score.overall >= repo.score.overall
    THEN <<Head(sorted)>> \o InsertByOverall(repo, Tail(sorted))
    ELSE <<repo>> \o sorted

RECURSIVE SortedByOverallDesc(_)
SortedByOverallDesc(repositories) ==
    IF repositories = <<>> THEN <<>>
    ELSE InsertByOverall(repositories[Len(repositories)],
             SortedByOverallDesc(SubSeq(repositories, 1, Len(repositories) - 1)))

RepoQuestions(repo) ==
    LET repo_name == repo.name
        primary_lang == IF repo.languages # <<>> THEN repo.languages[1] ELSE "Unknown"
    IN  <<"Tell me about your role in developing " \o repo_name \o ".",
          "What challenges did you face while building " \o repo_name \o "?",
          "How do you handle " \o primary_lang \o " best practices in your projects?">>

_generate_interview_questions(repositories) ==
    IF repositories = <<>>
    THEN <<"Can you walk us through your development experience?",
           "What projects have you worked on that aren't on GitHub?">>
    ELSE LET top_repos == Take(SortedByOverallDesc(repositories), 2)
             questions ==
                 RepoQuestions(top_repos[1])
                 \o (IF Len(top_repos) > 1 THEN RepoQuestions(top_repos[2]) ELSE <<>>)
                 \o <<"How do you approach documentation in your projects?",
                      "Describe your development workflow and commit practices.">>
         IN  Take(questions, 5)

_generate_summary(portfolio_score, repositories) ==
    LET score == portfolio_score.overall
        grade == portfolio_score.grade
        repo_count == Len(repositories)
    IN  IF score >= 8000
        THEN "Strong candidate with an impressive portfolio (Grade " \o grade
                 \o "). Shows consistency across " \o ToString(repo_count)
                 \o " projects with good documentation practices."
        ELSE IF score >= 6000
        THEN "Promising candidate (Grade " \o grade \o ") with "
                 \o ToString(repo_count) \o " repositories. Shows potential but"
                 \o " needs to improve documentation and project consistency."
        ELSE "Entry-level candidate (Grade " \o grade
                 \o ") with basic GitHub presence. Needs significant"
                 \o " improvement to be competitive in the job market."

_generate_recruiter_recommendations(repositories) ==
    IF repositories = <<>>
    THEN <<"Start building public repositories",
           "Contribute to open source projects">>
    ELSE LET PoorDocs(repo) == repo.documentation_analysis.quality_score < 50
             Inactive(repo) == ~repo.activity_analysis.is_active
             poor_docs == CountIf(repositories, PoorDocs)
             inactive == CountIf(repositories, Inactive)
             recommendations ==
                 (IF 2 * poor_docs > Len(repositories)
                  THEN <<"Improve README documentation">> ELSE <<>>)
                 \o (IF inactive > 0 THEN <<"Show recent activity">> ELSE <<>>)
                 \o <<"Pin your best repositories", "Add a detailed bio">>
         IN  Take(recommendations, 4)

\* variant of simulate_review: the summary is worded for the persona
simulate_review_flavoured(user_data, repositories, portfolio_score, recruiter_type) ==
    [recruiter_type |-> recruiter_type,
     first_impression |-> _generate_first_impression(user_data, repositories),
     decision |-> _determine_hire_decision(portfolio_score),
     summary |-> recruiter_type \o ": "
                    \o _generate_summary(portfolio_score, repositories),
     strengths |-> portfolio_score.strengths,
     concerns |-> portfolio_score.red_flags,
     interview_questions |-> _generate_interview_questions(repositories),
     recommendations |-> _generate_recruiter_recommendations(repositories)]

\* recruiter_type is what random.choice returned
simulate_review(user_data, repositories, portfolio_score, recruiter_type) ==
    [recruiter_type |-> recruiter_type,
     first_impression |-> _generate_first_impression(user_data, repositories),
     decision |-> _determine_hire_decision(portfolio_score),
     summary |-> _generate_summary(portfolio_score, repositories),
     strengths |-> portfolio_score.strengths,
     concerns |-> portfolio_score.red_flags,
     interview_questions |-> _generate_interview_questions(repositories),
     recommendations |-> _generate_recruiter_recommendations(repositories)]

(***************************************************************************)
(* roadmap_generator.py                                                    *)
(***************************************************************************)
\* variant of _generate_immediate_actions: the README action names the
\* last repository without a README
_generate_immediate_actions_last(portfolio_score, repositories) ==
    LET red_flags == portfolio_score.red_flags
        NoReadme(repo) == ~repo.documentation_analysis.has_readme
        repos_without_readme == SelectSeq(repositories, NoReadme)
        actions ==
            (IF "No public repositories" \in Range(red_flags)
             THEN <<"Create your first public repository">> ELSE <<>>)
            \o (IF repos_without_readme # <<>>
                THEN <<"Add README to " \o repos_without_readme[Len(repos_without_readme)].name>>
                ELSE <<>>)
            \o <<"Pin your best repositories", "Update your GitHub profile bio">>
    IN  Take(actions, 4)

_generate_immediate_actions(portfolio_score, repositories) ==
    LET red_flags == portfolio_score.red_flags
        NoReadme(repo) == ~repo.documentation_analysis.has_readme
        repos_without_readme == SelectSeq(repositories, NoReadme)
        actions ==
            (IF "No public repositories" \in Range(red_flags)
             THEN <<"Create your first public repository">> ELSE <<>>)
            \o (IF repos_without_readme # <<>>
                THEN <<"Add README to " \o repos_without_readme[1].name>>
                ELSE <<>>)
            \o <<"Pin your best repositories", "Update your GitHub profile bio">>
    IN  Take(actions, 4)

\* target_date is the calendar day of now + 30 days
_generate_short_term_goals(portfolio_score, repositories, now) ==
    LET PoorDocs(repo) == repo.documentation_analysis.quality_score < 50
        poor_docs == SelectSeq(repositories, PoorDocs)
        target_date == (now + 30 * HoursPerDay) \div HoursPerDay
        goals ==
            (IF poor_docs # <<>>
             THEN <<[goal |-> "Improve documentation for 3 repositories",
                     target_date |-> target_date]>>
             ELSE <<>>)
            \o <<[goal |-> "Establish consistent commit pattern",
                  target_date |-> target_date],
                 [goal |-> "Start a new project in a different language",
                  target_date |-> target_date]>>
    IN  Take(goals, 3)

_generate_long_term_goals(portfolio_score, repositories) ==
    <<"Complete a portfolio-worthy project",
      "Contribute to an open source project",
      "Demonstrate technical depth">>

\* the component names in the insertion order of the components mapping
ComponentNames == <<"documentation", "code_quality", "consistency", "impact", "depth">>

\* variant of _get_priority_focus: among equal least values the last
\* component is taken
_get_priority_focus_last(portfolio_score) ==
    LET components == portfolio_score.components
        IsLowest(i) == /\ \A j \in 1..Len(ComponentNames) :
                             components[ComponentNames[i]] <= components[ComponentNames[j]]
                       /\ \A j \in (i + 1)..Len(ComponentNames) :
                             components[ComponentNames[j]] > components[ComponentNames[i]]
        lowest_component == ComponentNames[CHOOSE i \in 1..Len(ComponentNames) : IsLowest(i)]
    IN  CASE lowest_component = "documentation" -> "Improving documentation quality"
          [] lowest_component = "code_quality" -> "Enhancing code structure and best practices"
          [] lowest_component = "consistency" -> "Establishing regular contribution patterns"
          [] lowest_component = "impact" -> "Building projects with real-world impact"
          [] lowest_component = "depth" -> "Expanding technical skill diversity"

\* min(components.items(), key = value): the first item with the least value
_get_priority_focus(portfolio_score) ==
    LET components == portfolio_score.components
        IsLowest(i) == /\ \A j \in 1..Len(ComponentNames) :
                             components[ComponentNames[i]] <= components[ComponentNames[j]]
                       /\ \A j \in 1..(i - 1) :
                             components[ComponentNames[j]] > components[ComponentNames[i]]
        lowest_component == ComponentNames[CHOOSE i \in 1..Len(ComponentNames) : IsLowest(i)]
    IN  CASE lowest_component = "documentation" -> "Improving documentation quality"
          [] lowest_component = "code_quality" -> "Enhancing code structure and best practices"
          [] lowest_component = "consistency" -> "Establishing regular contribution patterns"
          [] lowest_component = "impact" -> "Building projects with real-world impact"
          [] lowest_component = "depth" -> "Expanding technical skill diversity"

\* variant of _estimate_impact: the first band reaches up to 60
_estimate_impact_shifted(portfolio_score) ==
    LET current_score == portfolio_score.overall
        potential == IF current_score < 6000 THEN Min(current_score + 3000, 10000)
                     ELSE IF current_score < 7000 THEN Min(current_score + 2000, 10000)
                     ELSE Min(current_score + 1000, 10000)
    IN  [current_score |-> current_score,
         potential_score |-> potential,
         improvement |-> potential - current_score,
         timeframe |-> "3 months with consistent effort"]

\* variant of _estimate_impact: the potential score is not capped
_estimate_impact_uncapped(portfolio_score) ==
    LET current_score == portfolio_score.overall
        potential == IF current_score < 5000 THEN current_score + 3000
                     ELSE IF current_score < 7000 THEN current_score + 2000
                     ELSE current_score + 1000
    IN  [current_score |-> current_score,
         potential_score |-> potential,
         improvement |-> potential - current_score,
         timeframe |-> "3 months with consistent effort"]

\* scores are hundredths, so round(potential - current_score, 2) is the
\* difference itself
_estimate_impact(portfolio_score) ==
    LET current_score == portfolio_score.overall
        potential == IF current_score < 5000 THEN Min(current_score + 3000, 10000)
                     ELSE IF current_score < 7000 THEN Min(current_score + 2000, 10000)
                     ELSE Min(current_score + 1000, 10000)
    IN  [current_score |-> current_score,
         potential_score |-> potential,
         improvement |-> potential - current_score,
         timeframe |-> "3 months with consistent effort"]

generate_roadmap(portfolio_score, repositories, now) ==
    [generated_at |-> now,
     timeline |-> [immediate |-> _generate_immediate_actions(portfolio_score, repositories),
                   short_term |-> _generate_short_term_goals(portfolio_score, repositories, now),
                   long_term |-> _generate_long_term_goals(portfolio_score, repositories)],
     priority_focus |-> _get_priority_focus(portfolio_score),
     estimated_impact |-> _estimate_impact(portfolio_score)]

(***************************************************************************)
(* The GitHub side: what the API holds for the one account the requests    *)
(* ask about, and which endpoints currently fail.                          *)
(***************************************************************************)
Endpoints == {"profile", "repos", "readme", "languages", "commits", "events"}

\* the clock advances half a day at a time
TickHours == HoursPerDay \div 2

\* a commit made just under ACTIVE_DAYS_THRESHOLD days before time 0: the
\* repository is active at time 0 and inactive one tick later
EdgeCommit == TickHours - ACTIVE_DAYS_THRESHOLD * HoursPerDay

LongReadme == [length |-> 600, words |-> {"install", "usage"}]
FullReadme == [length |-> 1200,
               words |-> {"setup", "example", "![badge](url)", "api"}]
BriefReadme == [length |-> 80, words |-> {"demo"}]

\* the kinds of repository the account can hold (name is set by position)
RepoKinds ==
    <<[language |-> "", has_wiki |-> FALSE, stargazers_count |-> 0,
       forks_count |-> 0, readme |-> EmptyReadme, languages |-> <<>>,
       commits |-> <<>>],
      [language |-> "Python", has_wiki |-> FALSE, stargazers_count |-> 0,
       forks_count |-> 0, readme |-> EmptyReadme, languages |-> <<"Python">>,
       commits |-> <<EdgeCommit>>],
      [language |-> "Python", has_wiki |-> TRUE, stargazers_count |-> 50,
       forks_count |-> 0, readme |-> LongReadme,
       languages |-> <<"Python", "Shell">>,
       commits |-> <<-HoursPerDay, -3 * HoursPerDay>>],
      [language |-> "Go", has_wiki |-> FALSE, stargazers_count |-> 3,
       forks_count |-> 40, readme |-> FullReadme,
       languages |-> <<"Go", "C", "Rust">>,
       commits |-> <<-2 * HoursPerDay, -40 * HoursPerDay, -400 * HoursPerDay>>],
      [language |-> "Shell", has_wiki |-> TRUE, stargazers_count |-> 1,
       forks_count |-> 1, readme |-> BriefReadme, languages |-> <<"Shell">>,
       commits |-> <<-90 * HoursPerDay>>]>>

RawRepository(kind, i) ==
    [name |-> "repo" \o ToString(i),
     language |-> RepoKinds[kind].language,
     has_wiki |-> RepoKinds[kind].has_wiki,
     stargazers_count |-> RepoKinds[kind].stargazers_count,
     forks_count |-> RepoKinds[kind].forks_count,
     readme |-> RepoKinds[kind].readme,
     languages |-> RepoKinds[kind].languages,
     commits |-> RepoKinds[kind].commits]

\* every list of at most n kinds
KindLists(n) == UNION {[1..k -> 1..Len(RepoKinds)] : k \in 0..n}

\* lists around the MAX_REPOS_TO_ANALYZE cut that cycle through the kinds
LongKindLists ==
    {[i \in 1..n |-> ((i - 1) % Len(RepoKinds)) + 1] :
        n \in (MAX_REPOS_TO_ANALYZE - 1)..(MAX_REPOS_TO_ANALYZE + MaxExtra)}

\* the account holding the repositories of the kinds ks
Account(ks, ev, down) ==
    [login |-> "octocat",
     repos |-> [i \in 1..Len(ks) |-> RawRepository(ks[i], i)],
     events |-> ev,
     down |-> down]

EventCounts == {0, 26}

Usernames == {<<"a", "-", "a">>, <<"a", "-">>, <<"-", "a">>, [i \in 1..40 |-> "a"]}

VARIABLES
    github,             \* [login, repos, events, down]: the API's content
    clock,              \* the current time, in hours
    ticks,              \* how many times the clock advanced
    import_time,        \* when the models module was imported
    pc,                 \* where the request handler is
    t_start,            \* the time the current request was received
    username,           \* analyze_github_profile's argument
    user_data,          \* <<>> or <<the record get_user_profile returned>>
    repositories,       \* the fetched, truncated list of raw repositories
    analyzed_repos,     \* the analyses appended so far
    fetched,            \* what the last analyze_repository call fetched
    portfolio_score,    \* <<>> or <<the PortfolioScore>>
    recruiter_feedback, \* <<>> or <<the RecruiterFeedback>>
    roadmap,            \* <<>> or <<the Roadmap>>
    raised_by,          \* "" or the callee whose exception reached the handler
    response,           \* <<>> or <<the response the caller receives>>
    previous            \* <<>> or <<the finished request before this one>>

vars == <<github, clock, ticks, import_time, pc, t_start, username,
          user_data, repositories, analyzed_repos, fetched, portfolio_score,
          recruiter_feedback, roadmap, raised_by, response, previous>>

env == <<github, import_time>>
time == <<clock, ticks>>

(***************************************************************************)
(* github_service.py.  A fetch that can let an exception out yields        *)
(* Raise or Return(value); the others yield their value.                   *)
(***************************************************************************)
Raise == [raises |-> TRUE]
Return(v) == [raises |-> FALSE, value |-> v]

\* variant of get_user_events: a failed fetch yields an error marker
get_user_events_marker(gh) ==
    IF "events" \in gh.down THEN -1 ELSE gh.events

get_user_events(gh) ==
    IF "events" \in gh.down THEN 0 ELSE gh.events

get_user_profile(gh) ==
    IF "profile" \in gh.down THEN Raise
    ELSE Return([login |-> gh.login, name |-> "",
                 recent_activity |-> get_user_events(gh)])

get_repositories(gh) ==
    IF "repos" \in gh.down THEN Raise ELSE Return(gh.repos)

get_readme_content(gh, repo_data) ==
    IF "readme" \in gh.down THEN EmptyReadme ELSE repo_data.readme

get_languages(gh, repo_data) ==
    IF "languages" \in gh.down THEN <<>> ELSE repo_data.languages

get_commits(gh, repo_data) ==
    IF "commits" \in gh.down THEN <<>> ELSE repo_data.commits

(***************************************************************************)
(* routes.py: analyze_github_profile, one action per stage                 *)
(***************************************************************************)
NoFetch == [readme_content |-> EmptyReadme, languages |-> <<>>, commits |-> <<>>]

\* variant of InternalError: the handler answers with what it has so far
InternalError_partial(by, detail) ==
    /\ raised_by' = by
    /\ response' = <<[status |-> 200,
                      body |-> [username |-> username, user_data |-> user_data]]>>
    /\ pc' = "done"

\* the except clause: any exception becomes one status-500 response
InternalError(by, detail) ==
    /\ raised_by' = by
    /\ response' = <<[status |-> 500, detail |-> detail]>>
    /\ pc' = "done"

\* the server has started and no request has arrived
Started ==
    /\ clock = 0
    /\ ticks = 0
    /\ import_time = 0
    /\ pc = "idle"
    /\ t_start = 0
    /\ username = <<>>
    /\ user_data = <<>>
    /\ repositories = <<>>
    /\ analyzed_repos = <<>>
    /\ fetched = NoFetch
    /\ portfolio_score = <<>>
    /\ recruiter_feedback = <<>>
    /\ roadmap = <<>>
    /\ raised_by = ""
    /\ response = <<>>
    /\ previous = <<>>

Init ==
    /\ \/ \E ks \in KindLists(MaxShortList), ev \in EventCounts :
             github = Account(ks, ev, {})
       \/ \E ks \in LongKindLists : github = Account(ks, 0, {})
       \/ \E ks \in KindLists(MaxFailList), e \in Endpoints :
             github = Account(ks, 26, {e})
    /\ Started

Tick ==
    /\ ticks < MaxTicks
    /\ clock' = clock + TickHours
    /\ ticks' = ticks + 1
    /\ UNCHANGED <<env, pc, t_start, username, user_data, repositories,
                   analyzed_repos, fetched, portfolio_score, recruiter_feedback,
                   roadmap, raised_by, response, previous>>

\* a request arrives; the handler's locals are fresh
ReceiveRequest ==
    /\ pc \in {"idle", "done"}
    /\ \E u \in Usernames : username' = u
    /\ t_start' = clock
    /\ pc' = "validate"
    /\ user_data' = <<>>
    /\ repositories' = <<>>
    /\ analyzed_repos' = <<>>
    /\ fetched' = NoFetch
    /\ portfolio_score' = <<>>
    /\ recruiter_feedback' = <<>>
    /\ roadmap' = <<>>
    /\ raised_by' = ""
    /\ response' = <<>>
    /\ UNCHANGED <<env, time, previous>>

Validate ==
    /\ pc = "validate"
    /\ IF validate_github_username(username)
       THEN /\ pc' = "fetch_profile"
            /\ UNCHANGED <<raised_by, response>>
       ELSE InternalError("validate", "400: Invalid GitHub username")
    /\ UNCHANGED <<env, time, t_start, username, user_data,
                   repositories, analyzed_repos, fetched, portfolio_score,
                   recruiter_feedback, roadmap, previous>>

FetchProfile ==
    /\ pc = "fetch_profile"
    /\ IF get_user_profile(github).raises
       THEN /\ InternalError("get_user_profile", "GitHub API error")
            /\ UNCHANGED user_data
       ELSE /\ user_data' = <<get_user_profile(github).value>>
            /\ pc' = "fetch_repos"
            /\ UNCHANGED <<raised_by, response>>
    /\ UNCHANGED <<env, time, t_start, username, repositories,
                   analyzed_repos, fetched, portfolio_score, recruiter_feedback,
                   roadmap, previous>>

\* variant of Truncate: the slice keeps the last repositories, not the first
Truncate_tail(repos) ==
    SubSeq(repos, Len(repos) - Min(Len(repos), MAX_REPOS_TO_ANALYZE) + 1, Len(repos))

\* repositories[:Config.MAX_REPOS_TO_ANALYZE]
Truncate(repos) == Take(repos, MAX_REPOS_TO_ANALYZE)

FetchRepositories ==
    /\ pc = "fetch_repos"
    /\ IF get_repositories(github).raises
       THEN /\ InternalError("get_repositories", "GitHub API error")
            /\ UNCHANGED repositories
       ELSE /\ repositories' = Truncate(get_repositories(github).value)
            /\ pc' = "analyze"
            /\ UNCHANGED <<raised_by, response>>
    /\ UNCHANGED <<env, time, t_start, username, user_data,
                   analyzed_repos, fetched, portfolio_score, recruiter_feedback,
                   roadmap, previous>>

\* variant of AllAnalyzed: the loop stops after its first iteration
AllAnalyzed_first_only == analyzed_repos # <<>> \/ repositories = <<>>

\* the for loop over repositories has no repository left
AllAnalyzed == Len(analyzed_repos) = Len(repositories)

\* one iteration of the loop: analyze_repository and append
AnalyzeNext ==
    /\ pc = "analyze"
    /\ ~AllAnalyzed
    /\ LET repo == repositories[Len(analyzed_repos) + 1]
           readme_content == get_readme_content(github, repo)
           languages == get_languages(github, repo)
           commits == get_commits(github, repo)
       IN  /\ fetched' = [readme_content |-> readme_content,
                          languages |-> languages, commits |-> commits]
           /\ analyzed_repos' = Append(analyzed_repos,
                  analyze_repository(repo, readme_content, languages, commits, clock))
    /\ UNCHANGED <<env, time, pc, t_start, username, user_data,
                   repositories, portfolio_score, recruiter_feedback, roadmap,
                   raised_by, response, previous>>

Score ==
    /\ pc = "analyze"
    /\ AllAnalyzed
    /\ portfolio_score' = <<calculate_portfolio_score(user_data[1], analyzed_repos)>>
    /\ pc' = "review"
    /\ UNCHANGED <<env, time, t_start, username, user_data,
                   repositories, analyzed_repos, fetched, recruiter_feedback,
                   roadmap, raised_by, response, previous>>

Review ==
    /\ pc = "review"
    /\ \E recruiter_type \in Range(recruiter_personalities) :
          recruiter_feedback' = <<simulate_review(user_data[1], analyzed_repos,
                                                  portfolio_score[1], recruiter_type)>>
    /\ pc' = "roadmap"
    /\ UNCHANGED <<env, time, t_start, username, user_data,
                   repositories, analyzed_repos, fetched, portfolio_score,
                   roadmap, raised_by, response, previous>>

Roadmap ==
    /\ pc = "roadmap"
    /\ roadmap' = <<generate_roadmap(portfolio_score[1], analyzed_repos, clock)>>
    /\ pc' = "respond"
    /\ UNCHANGED <<env, time, t_start, username, user_data,
                   repositories, analyzed_repos, fetched, portfolio_score,
                   recruiter_feedback, raised_by, response, previous>>

\* UserProfile(...).dict(): analyzed_at takes the class's default value
UserProfile(name, data, repos, score, feedback, plan, default_analyzed_at) ==
    [username |-> name,
     user_data |-> data,
     repositories |-> repos,
     score |-> score,
     recruiter_feedback |-> feedback,
     roadmap |-> plan,
     analyzed_at |-> default_analyzed_at]

Respond ==
    /\ pc = "respond"
    /\ response' = <<[status |-> 200,
                      body |-> UserProfile(username, user_data[1], analyzed_repos,
                                           portfolio_score[1], recruiter_feedback[1],
                                           roadmap[1], import_time)]>>
    /\ pc' = "done"
    /\ UNCHANGED <<env, time, t_start, username, user_data,
                   repositories, analyzed_repos, fetched, portfolio_score,
                   recruiter_feedback, roadmap, raised_by, previous>>

Next ==
    \/ Tick
    \/ ReceiveRequest
    \/ Validate
    \/ FetchProfile
    \/ FetchRepositories
    \/ AnalyzeNext
    \/ Score
    \/ Review
    \/ Roadmap
    \/ Respond

Spec == Init /\ [][Next]_vars

(***************************************************************************)
(* The same request served a second time: the first finished request is    *)
(* kept in previous so that the two responses can be compared.             *)
(***************************************************************************)
InitRepeat ==
    /\ \E ks \in KindLists(MaxRepeatList), ev \in EventCounts,
          down \in {{}} \cup {{e} : e \in Endpoints} :
          github = Account(ks, ev, down)
    /\ Started

RepeatRequest ==
    /\ pc = "done"
    /\ previous = <<>>
    /\ previous' = <<[t_start |-> t_start, t_end |-> clock,
                      username |-> username, response |-> response[1]]>>
    /\ t_start' = clock
    /\ pc' = "validate"
    /\ user_data' = <<>>
    /\ repositories' = <<>>
    /\ analyzed_repos' = <<>>
    /\ fetched' = NoFetch
    /\ portfolio_score' = <<>>
    /\ recruiter_feedback' = <<>>
    /\ roadmap' = <<>>
    /\ raised_by' = ""
    /\ response' = <<>>
    /\ UNCHANGED <<env, time, username>>

NextRepeat ==
    \/ Tick
    \/ ReceiveRequest
    \/ RepeatRequest
    \/ Validate
    \/ FetchProfile
    \/ FetchRepositories
    \/ AnalyzeNext
    \/ Score
    \/ Review
    \/ Roadmap
    \/ Respond

SpecRepeat == InitRepeat /\ [][NextRepeat]_vars

(***************************************************************************)
(* Accounts with a single repository, drawn from samples that exercise     *)
(* every threshold of the per-repository analysis.                         *)
(***************************************************************************)
\* README lengths around the 200 and 500 thresholds, with every combination
\* of one setup, one usage, one image-link and one API token
SampleReadmes ==
    {EmptyReadme} \cup
    {[length |-> n, words |-> w] :
        n \in {1, 200, 201, 500, 501, 600},
        w \in SUBSET {"install", "usage", "![badge](url)", "endpoint"}}

\* the newest commits get_commits returns, at most 30 (per_page)
ThirtyCommits == [i \in 1..30 |-> -i]

\* commit lists, newest first: none; one commit at the activity edge; two
\* within a day; frequencies 0.5, 2/3, 0.1 and 3/29; a full page of
\* commits; two old commits
SampleCommits ==
    {<<>>,
     <<EdgeCommit>>,
     <<-HoursPerDay, -HoursPerDay - 16>>,
     <<-HoursPerDay, -5 * HoursPerDay>>,
     <<-HoursPerDay, -4 * HoursPerDay>>,
     <<-HoursPerDay, -2 * HoursPerDay, -31 * HoursPerDay>>,
     <<-HoursPerDay, -2 * HoursPerDay, -30 * HoursPerDay>>,
     ThirtyCommits,
     <<-90 * HoursPerDay, -95 * HoursPerDay>>}

\* <<stargazers_count, forks_count>>
SamplePopularity ==
    {<<0, 0>>, <<1, 1>>, <<10, 0>>, <<11, 0>>, <<50, 0>>, <<0, 33>>, <<2, 32>>, <<3, 40>>}

\* the language mappings of a repository
SampleLanguages ==
    {<<>>, <<"Python">>, <<"Python", "Shell">>, <<"Go", "C", "Rust", "Python", "Shell">>}

SingleRepository(readme, commits, popularity, languages, has_wiki) ==
    [name |-> "repo1",
     language |-> IF languages = <<>> THEN "" ELSE languages[1],
     has_wiki |-> has_wiki,
     stargazers_count |-> popularity[1],
     forks_count |-> popularity[2],
     readme |-> readme,
     languages |-> languages,
     commits |-> commits]

SingleAccount(repo, ev) ==
    [login |-> "octocat", repos |-> <<repo>>, events |-> ev, down |-> {}]

InitSingle ==
    /\ \/ \E readme \in SampleReadmes, commits \in {<<>>, ThirtyCommits} :
             github = SingleAccount(
                 SingleRepository(readme, commits, <<0, 0>>, <<"Python">>, FALSE), 0)
       \/ \E commits \in SampleCommits, readme \in {EmptyReadme, FullReadme},
             popularity \in {<<0, 0>>, <<3, 40>>}, has_wiki \in BOOLEAN :
             github = SingleAccount(
                 SingleRepository(readme, commits, popularity,
                     IF has_wiki THEN <<"Python", "Shell">> ELSE <<>>, has_wiki), 0)
       \/ \E popularity \in SamplePopularity, languages \in SampleLanguages,
             has_wiki \in BOOLEAN, readme \in {EmptyReadme, LongReadme, FullReadme},
             commits \in {<<>>, ThirtyCommits}, ev \in EventCounts :
             github = SingleAccount(
                 SingleRepository(readme, commits, popularity, languages, has_wiki), ev)
    /\ Started

SpecSingle == InitSingle /\ [][Next]_vars

(***************************************************************************)
(* The roadmap generator called on its own, on one portfolio score after   *)
(* another; previous keeps the call before the current one.                *)
(***************************************************************************)
\* overall scores in hundredths: a grid over [0,100] and the values around
\* the band edges 50 and 70 and around the scores that reach the cap
SampleScores ==
    {250 * k : k \in 0..40}
    \cup {1, 4999, 5001, 6999, 7001, 7999, 8001, 8999, 9001, 9999}

\* a PortfolioScore of an empty-flagged portfolio whose five components
\* all equal its overall score
PortfolioScoreOf(overall) ==
    [overall |-> overall,
     components |-> [documentation |-> overall, code_quality |-> overall,
                     consistency |-> overall, impact |-> overall,
                     depth |-> overall],
     grade |-> _get_grade(<<overall, 100>>),
     red_flags |-> <<>>,
     strengths |-> <<>>]

InitEstimate ==
    /\ github = Account(<<>>, 0, {})
    /\ Started

\* generate_roadmap is called with a portfolio score and no repositories
EstimateImpact ==
    /\ \E overall \in SampleScores :
          /\ portfolio_score' = <<PortfolioScoreOf(overall)>>
          /\ roadmap' = <<generate_roadmap(PortfolioScoreOf(overall), <<>>, clock)>>
    /\ previous' = IF roadmap = <<>> THEN <<>>
                   ELSE <<[overall |-> portfolio_score[1].overall,
                           estimated_impact |-> roadmap[1].estimated_impact]>>
    /\ UNCHANGED <<env, time, pc, t_start, username, user_data, repositories,
                   analyzed_repos, fetched, recruiter_feedback, raised_by,
                   response>>

NextEstimate == EstimateImpact

SpecEstimate == InitEstimate /\ [][NextEstimate]_vars

(***************************************************************************)
(* Properties of the portfolio score                                       *)
(***************************************************************************)
Scored == portfolio_score # <<>>

Hundred == 100 * 100

\* C1: whatever the user record and the analyzed repositories (the empty
\* list included), the overall score and the five component scores of the
\* returned PortfolioScore lie in [0,100].
C1_ScoresInRange ==
    Scored =>
        /\ portfolio_score[1].overall \in 0..Hundred
        /\ \A c \in Range(ComponentNames) :
              portfolio_score[1].components[c] \in 0..Hundred

\* the cap of the impact score is hit and the portfolio has several repositories
C1_Witness ==
    /\ Scored
    /\ Len(analyzed_repos) >= 2
    /\ 2 * SumSeq([i \in 1..Len(analyzed_repos) |-> analyzed_repos[i].stars]) > 100
    /\ portfolio_score[1].components.impact = Hundred
    /\ portfolio_score[1].overall > 0

\* C2: for the empty list of analyzed repositories the score is overall 0,
\* grade F, the single red flag "No public repositories" and no strengths.
C2_EmptyPortfolio ==
    (Scored /\ analyzed_repos = <<>>) =>
        /\ portfolio_score[1].overall = 0
        /\ portfolio_score[1].grade = "F"
        /\ portfolio_score[1].red_flags = <<"No public repositories">>
        /\ portfolio_score[1].strengths = <<>>

\* an account without repositories has been scored
C2_Witness ==
    /\ Scored
    /\ github.repos = <<>>
    /\ analyzed_repos = <<>>

\* the letter the cutoffs 90/80/70/60 give to a number of hundredths
GradeOfReturned(overall) ==
    IF overall >= 90 * 100 THEN "A"
    ELSE IF overall >= 80 * 100 THEN "B"
    ELSE IF overall >= 70 * 100 THEN "C"
    ELSE IF overall >= 60 * 100 THEN "D"
    ELSE "F"

\* C3: the grade of a returned PortfolioScore is the step function of the
\* returned overall value: A from 90, B from 80, C from 70, D from 60, else F.
C3_GradeOfReturnedOverall ==
    Scored => portfolio_score[1].grade = GradeOfReturned(portfolio_score[1].overall)

(***************************************************************************)
(* Properties of the request pipeline                                      *)
(***************************************************************************)
\* the length of the list the handler analyzes for this account
ExpectedCount == Min(Len(github.repos), MAX_REPOS_TO_ANALYZE)

\* C4: within a request, scoring starts only once every repository of the
\* truncated list is analyzed, and recruiter feedback and the roadmap are
\* produced only after the score exists; no stage sees a partial list.
C4_StagesInOrder ==
    [][ /\ (portfolio_score' # portfolio_score /\ portfolio_score' # <<>>) =>
               /\ Len(repositories) = ExpectedCount
               /\ Len(analyzed_repos) = Len(repositories)
               /\ \A i \in 1..Len(repositories) :
                     analyzed_repos[i].name = repositories[i].name
               /\ analyzed_repos' = analyzed_repos
        /\ (recruiter_feedback' # recruiter_feedback /\ recruiter_feedback' # <<>>) =>
               /\ portfolio_score # <<>>
               /\ portfolio_score' = portfolio_score
               /\ Len(analyzed_repos) = ExpectedCount
        /\ (roadmap' # roadmap /\ roadmap' # <<>>) =>
               /\ portfolio_score # <<>>
               /\ portfolio_score' = portfolio_score
               /\ Len(analyzed_repos) = ExpectedCount
      ]_vars

\* a roadmap was generated for a portfolio of several repositories
C4_Witness ==
    /\ roadmap # <<>>
    /\ Len(analyzed_repos) >= 2
    /\ Len(analyzed_repos) = Len(github.repos)

SoftEndpoints == {"readme", "languages", "commits", "events"}

\* a failing README, languages, commits or events fetch hands the caller
\* its empty default and lets no exception out
C5_FourAbsorbed ==
    /\ ("events" \in github.down /\ user_data # <<>>) =>
           user_data[1].recent_activity = 0
    /\ ("readme" \in github.down /\ analyzed_repos # <<>>) =>
           /\ fetched.readme_content = EmptyReadme
           /\ ~analyzed_repos[Len(analyzed_repos)].documentation_analysis.has_readme
    /\ ("languages" \in github.down /\ analyzed_repos # <<>>) =>
           /\ fetched.languages = <<>>
           /\ analyzed_repos[Len(analyzed_repos)].languages = <<>>
    /\ ("commits" \in github.down /\ analyzed_repos # <<>>) =>
           /\ fetched.commits = <<>>
           /\ analyzed_repos[Len(analyzed_repos)].activity_analysis.total_commits_recent = 0
    /\ (github.down \cap SoftEndpoints # {}) => raised_by \in {"", "validate"}
    /\ (github.down \cap SoftEndpoints # {} /\ pc = "done"
           /\ validate_github_username(username)) => response[1].status = 200

ReportFields == {"username", "user_data", "repositories", "score",
                 "recruiter_feedback", "roadmap", "analyzed_at"}

CompleteReport(r) ==
    /\ r.status = 200
    /\ raised_by = ""
    /\ DOMAIN r = {"status", "body"}
    /\ DOMAIN r.body = ReportFields
    /\ user_data # <<>> /\ portfolio_score # <<>>
    /\ recruiter_feedback # <<>> /\ roadmap # <<>>
    /\ r.body.username = username
    /\ r.body.user_data = user_data[1]
    /\ r.body.repositories = analyzed_repos
    /\ Len(r.body.repositories) = ExpectedCount
    /\ r.body.score = portfolio_score[1]
    /\ r.body.recruiter_feedback = recruiter_feedback[1]
    /\ r.body.roadmap = roadmap[1]

SingleFailure(r) ==
    /\ r.status = 500
    /\ raised_by # ""
    /\ DOMAIN r = {"status", "detail"}

\* C6: a request ends with exactly one response, which is either the
\* complete report (username, user_data, repositories, score,
\* recruiter_feedback, roadmap) or the single failure response; an
\* exception raised at any step never yields a report missing a part.
C6_ReportOrFailure ==
    /\ [](/\ (pc = "done") <=> (response # <<>>)
          /\ response # <<>> =>
                 (CompleteReport(response[1]) \/ SingleFailure(response[1]))
          /\ raised_by # "" => (response # <<>> /\ SingleFailure(response[1])))
    /\ [][response # <<>> => (response' = response \/ response' = <<>>)]_vars

\* the repository fetch failed after the profile had been fetched
C6_Witness ==
    /\ pc = "done"
    /\ raised_by = "get_repositories"
    /\ user_data # <<>>
    /\ response[1].status = 500

\* the times at which the current request can have read the clock
ReadTimes == {t_start + k * TickHours : k \in 0..ticks}

\* some analyzer output for the i-th repository the collaborator returns
IsAnalysisOf(analysis, i) ==
    LET repo == github.repos[i]
    IN  \E now \in ReadTimes :
           analysis = analyze_repository(repo, get_readme_content(github, repo),
                                         get_languages(github, repo),
                                         get_commits(github, repo), now)

\* C8: the repositories of the composed report are the analyzer outputs for
\* the first min(n, 20) repositories the collaborator returned, in its
\* order; scoring, recruiter feedback and roadmap generation leave the
\* analyzed repositories and the portfolio score unchanged.
C8_ReportRepositories ==
    /\ []((response # <<>> /\ response[1].status = 200) =>
             /\ Len(response[1].body.repositories)
                    = Min(Len(github.repos), MAX_REPOS_TO_ANALYZE)
             /\ \A i \in 1..Len(response[1].body.repositories) :
                   /\ response[1].body.repositories[i].name = github.repos[i].name
                   /\ IsAnalysisOf(response[1].body.repositories[i], i))
    /\ [][(pc \in {"review", "roadmap", "respond"}
             \/ (pc = "analyze" /\ Len(analyzed_repos) = Len(repositories))) =>
              /\ analyzed_repos' = analyzed_repos
              /\ portfolio_score # <<>> => portfolio_score' = portfolio_score]_vars

\* a report for an account with more than MAX_REPOS_TO_ANALYZE repositories
C8_Witness ==
    /\ response # <<>>
    /\ response[1].status = 200
    /\ Len(github.repos) > MAX_REPOS_TO_ANALYZE
    /\ Len(response[1].body.repositories) = MAX_REPOS_TO_ANALYZE

\* the number of distinct language names over the fetched language mappings
DistinctLanguages ==
    Cardinality(UNION {Range(get_languages(github, repositories[i])) :
                          i \in 1..Len(repositories)})

DepthStep(count) ==
    IF count >= 5 THEN 100
    ELSE IF count >= 3 THEN 80
    ELSE IF count >= 2 THEN 60
    ELSE IF count >= 1 THEN 40
    ELSE 20

\* C9 as stated: for every repository list, the empty one included, the
\* depth component is the step function of the distinct-language count:
\* 100 from 5, 80 from 3, 60 from 2, 40 from 1 and 20 for 0.
C9_DepthStepEverywhere ==
    Scored => portfolio_score[1].components.depth = 100 * DepthStep(DistinctLanguages)

\* C9 amended: for every non-empty repository list the depth component is
\* that step function of the distinct-language count; for the empty list
\* it is 0.
C9_DepthStepNonEmpty ==
    Scored => portfolio_score[1].components.depth
                 = IF analyzed_repos = <<>> THEN 0
                   ELSE 100 * DepthStep(DistinctLanguages)

\* a non-empty portfolio without any language scores depth 20
C9_Witness ==
    /\ Scored
    /\ analyzed_repos # <<>>
    /\ DistinctLanguages = 0
    /\ portfolio_score[1].components.depth = 20 * 100

\* the red flags the rules give, from the fetched data
ExpectedRedFlags ==
    IF repositories = <<>> THEN <<"No public repositories">>
    ELSE (IF \A i \in 1..Len(analyzed_repos) :
                ~analyzed_repos[i].activity_analysis.is_active
          THEN <<"All repositories are inactive">> ELSE <<>>)
         \o (IF 2 * Cardinality({i \in 1..Len(repositories) :
                    get_readme_content(github, repositories[i]) = EmptyReadme})
                  > Len(repositories)
             THEN <<"Most repositories missing README files">> ELSE <<>>)
         \o (IF \A i \in 1..Len(repositories) : repositories[i].stargazers_count = 0
             THEN <<"No stars on any repositories">> ELSE <<>>)

\* C10: red_flags is exactly ["No public repositories"] for zero
\* repositories; otherwise it lists, in this order, "All repositories are
\* inactive" iff every repository is inactive, "Most repositories missing
\* README files" iff more than half have no README, and "No stars on any
\* repositories" iff the stars sum to 0.
C10_RedFlags ==
    Scored => portfolio_score[1].red_flags = ExpectedRedFlags

\* exactly half of the repositories lack a README and that flag is absent
C10_Witness ==
    /\ Scored
    /\ Len(analyzed_repos) = 2
    /\ Cardinality({i \in 1..2 : ~analyzed_repos[i].documentation_analysis.has_readme}) = 1
    /\ "Most repositories missing README files" \notin Range(portfolio_score[1].red_flags)
    /\ portfolio_score[1].red_flags # <<>>

(***************************************************************************)
(* Two runs on the same snapshot                                           *)
(***************************************************************************)
\* both the previous and the current request produced a report, and every
\* clock reading of both is the same time
SameSnapshotSameTime ==
    /\ pc = "done"
    /\ previous # <<>>
    /\ response[1].status = 200
    /\ previous[1].response.status = 200
    /\ previous[1].username = username
    /\ previous[1].t_start = previous[1].t_end
    /\ t_start = previous[1].t_end
    /\ clock = t_start

WithoutPersona(feedback) == [feedback EXCEPT !.recruiter_type = ""]

\* C7: two runs of the pipeline on the same fetch snapshot at the same
\* current time give identical analyzed repositories, portfolio score and
\* roadmap, and recruiter feedback that differs at most in recruiter_type,
\* which is one of the four personas.
C7_Repeatable ==
    /\ (response # <<>> /\ response[1].status = 200) =>
           response[1].body.recruiter_feedback.recruiter_type
               \in {"Technical Recruiter", "Hiring Manager", "Tech Lead", "HR Specialist"}
    /\ SameSnapshotSameTime =>
           /\ response[1].body.repositories = previous[1].response.body.repositories
           /\ response[1].body.score = previous[1].response.body.score
           /\ response[1].body.roadmap = previous[1].response.body.roadmap
           /\ WithoutPersona(response[1].body.recruiter_feedback)
                  = WithoutPersona(previous[1].response.body.recruiter_feedback)

\* two reports on a non-empty portfolio whose personas differ
C7_Witness ==
    /\ SameSnapshotSameTime
    /\ response[1].body.repositories # <<>>
    /\ response[1].body.recruiter_feedback.recruiter_type
           # previous[1].response.body.recruiter_feedback.recruiter_type

(***************************************************************************)
(* Properties of the components and of the per-repository analysis         *)
(***************************************************************************)
\* the stars and the forks of the repositories the handler analyzes
TotalStars ==
    SumSeq([i \in 1..Len(repositories) |-> repositories[i].stargazers_count])

TotalForks ==
    SumSeq([i \in 1..Len(repositories) |-> repositories[i].forks_count])

\* C11: the impact component is min(2 * (stars summed over all
\* repositories) + 3 * (forks summed over all repositories), 100), capped
\* once on the total and not per repository; a portfolio whose
\* repositories all have 0 stars and 0 forks has impact 0.
C11_ImpactCappedOnce ==
    Scored =>
        /\ portfolio_score[1].components.impact
               = 100 * Min(2 * TotalStars + 3 * TotalForks, 100)
        /\ (\A i \in 1..Len(repositories) :
                 /\ repositories[i].stargazers_count = 0
                 /\ repositories[i].forks_count = 0) =>
               portfolio_score[1].components.impact = 0

\* several repositories whose stars and forks add up to an impact below
\* the cap
C11_Witness ==
    /\ Scored
    /\ Len(analyzed_repos) >= 2
    /\ \A i \in 1..Len(repositories) : repositories[i].stargazers_count > 0
    /\ 2 * TotalStars + 3 * TotalForks < 100
    /\ portfolio_score[1].components.impact
           = 100 * (2 * TotalStars + 3 * TotalForks)

\* the README the handler fetched for its i-th repository
FetchedReadme(i) == get_readme_content(github, repositories[i])

\* the points the rules give to a README that is not empty
ExpectedQuality(readme) ==
    Min(100,
        (IF readme.length > 500 THEN 30
         ELSE IF readme.length > 200 THEN 15 ELSE 0)
        + (IF readme.words \cap {"install", "setup", "getting started"} # {}
           THEN 20 ELSE 0)
        + (IF readme.words \cap {"example", "usage", "demo"} # {} THEN 20 ELSE 0)
        + (IF "![badge](url)" \in readme.words THEN 15 ELSE 0)
        + (IF readme.words \cap {"api", "endpoint", "route"} # {} THEN 15 ELSE 0))

\* the documentation analysis of a README that is not empty carries the
\* accumulated quality score
C12_NonEmptyReadmeScore ==
    \A i \in 1..Len(analyzed_repos) :
        FetchedReadme(i).length > 0 =>
            analyzed_repos[i].documentation_analysis.quality_score
                = ExpectedQuality(FetchedReadme(i))

\* the documentation analysis of an empty README has quality score 0 and
\* each of the four detector flags false
C12_EmptyReadmeAllFalse ==
    \A i \in 1..Len(analyzed_repos) :
        FetchedReadme(i).length = 0 =>
            LET doc == analyzed_repos[i].documentation_analysis
            IN  /\ doc.quality_score = 0
                /\ {"has_setup_instructions", "has_examples", "has_badges",
                    "has_api_documentation"} \subseteq DOMAIN doc
                /\ doc.has_setup_instructions = FALSE
                /\ doc.has_examples = FALSE
                /\ doc.has_badges = FALSE
                /\ doc.has_api_documentation = FALSE

\* C12: the documentation quality score of a repository is 0 with every
\* detector flag false when the README is empty; otherwise it is the
\* length points (30 above 500 characters, 15 above 200) plus 20 for setup
\* keywords, 20 for usage keywords, 15 for a markdown image link and 15
\* for API keywords, clamped to 100.
C12_DocumentationQuality ==
    /\ C12_NonEmptyReadmeScore
    /\ C12_EmptyReadmeAllFalse

\* the commits the handler fetched for its i-th repository
FetchedCommits(i) == get_commits(github, repositories[i])

Newest(commits) == CHOOSE t \in Range(commits) : \A u \in Range(commits) : u <= t

Oldest(commits) == CHOOSE t \in Range(commits) : \A u \in Range(commits) : t <= u

\* whole days from time a to time b
WholeDays(a, b) == (b - a) \div HoursPerDay

\* the activity score the rules give to a non-empty commit list analyzed
\* at time now; commit_frequency is count / span, or count for a span of 0
ExpectedActivityScore(commits, now) ==
    LET count == Len(commits)
        span == WholeDays(Oldest(commits), Newest(commits))
        FrequencyAbove(num, den) ==
            IF span = 0 THEN den * count > num
            ELSE den * count > num * span
    IN  Min(100,
            (IF WholeDays(Newest(commits), now) < 30 THEN 40 ELSE 0)
            + (IF FrequencyAbove(1, 2) THEN 30
               ELSE IF FrequencyAbove(1, 10) THEN 15 ELSE 0)
            + Min(count, 30))

\* C13: with zero commits the activity analysis is activity_score 0,
\* is_active false and last_commit_date null; with commits, is_active holds
\* iff the whole days from the newest commit to the current time are fewer
\* than 30, and activity_score = min(100, 40 if active + 30 if
\* commit_frequency > 0.5, else 15 if > 0.1 + min(commit count, 30)).
C13_ActivityAnalysis ==
    \A i \in 1..Len(analyzed_repos) :
        LET commits == FetchedCommits(i)
            activity == analyzed_repos[i].activity_analysis
        IN  IF commits = <<>>
            THEN /\ activity.activity_score = 0
                 /\ activity.is_active = FALSE
                 /\ activity.last_commit_date = <<>>
            ELSE \E now \in ReadTimes :
                    /\ activity.is_active <=> WholeDays(Newest(commits), now) < 30
                    /\ activity.activity_score = ExpectedActivityScore(commits, now)

\* an active repository whose two commits are 4 days apart: the frequency
\* is exactly 0.5 and earns 15 points
C13_Witness ==
    /\ Len(analyzed_repos) = 1
    /\ FetchedCommits(1) = <<-HoursPerDay, -5 * HoursPerDay>>
    /\ analyzed_repos[1].activity_analysis.is_active
    /\ analyzed_repos[1].activity_analysis.activity_score = 40 + 15 + 2

\* C14: for every repository, the per-repo score has documentation,
\* code_quality, activity, popularity and overall in [0,100], with
\* code_quality = min(100, 50 + 20 if more than one language + 15 if wiki
\* enabled), popularity = min(2*stars + 3*forks, 100), overall =
\* 0.35*documentation + 0.25*code_quality + 0.25*activity + 0.15*popularity
\* and grade A/B/C/D/F for overall >= 90 / 80 / 70 / 60 / otherwise.
C14_RepoScore ==
    \A i \in 1..Len(analyzed_repos) :
        LET repo == repositories[i]
            score == analyzed_repos[i].score
        IN  /\ score.documentation \in 0..100
            /\ score.code_quality \in 0..100
            /\ score.activity \in 0..100
            /\ score.popularity \in 0..100
            /\ score.overall \in 0..Hundred
            /\ score.documentation
                   = analyzed_repos[i].documentation_analysis.quality_score
            /\ score.activity
                   = analyzed_repos[i].activity_analysis.activity_score
            /\ score.code_quality
                   = Min(100, 50
                         + (IF Len(get_languages(github, repo)) > 1 THEN 20 ELSE 0)
                         + (IF repo.has_wiki THEN 15 ELSE 0))
            /\ score.popularity
                   = Min(2 * repo.stargazers_count + 3 * repo.forks_count, 100)
            /\ score.overall
                   = 35 * score.documentation + 25 * score.code_quality
                     + 25 * score.activity + 15 * score.popularity
            /\ score.grade = GradeOfReturned(score.overall)

\* a repository with capped popularity and the highest code quality whose
\* overall score earns an A
C14_Witness ==
    /\ Len(analyzed_repos) = 1
    /\ 2 * repositories[1].stargazers_count + 3 * repositories[1].forks_count > 100
    /\ analyzed_repos[1].score.popularity = 100
    /\ analyzed_repos[1].score.code_quality = 85
    /\ analyzed_repos[1].score.overall >= 90 * 100
    /\ analyzed_repos[1].score.grade = "A"

(***************************************************************************)
(* Properties of the recruiter feedback and of the roadmap                 *)
(***************************************************************************)
Reviewed == recruiter_feedback # <<>>

\* C15: the recruiter decision is a step function of the portfolio overall
\* score: from 80 HIRE with confidence High; from 60 to below 80 MAYBE with
\* confidence Medium; below 60 REJECT, with confidence High below 40 and
\* Medium from 40 to below 60.
C15_HireDecision ==
    Reviewed =>
        LET overall == portfolio_score[1].overall
            decision == recruiter_feedback[1].decision
        IN  /\ overall >= 80 * 100 =>
                   decision.decision = "HIRE" /\ decision.confidence = "High"
            /\ (overall >= 60 * 100 /\ overall < 80 * 100) =>
                   decision.decision = "MAYBE" /\ decision.confidence = "Medium"
            /\ (overall >= 40 * 100 /\ overall < 60 * 100) =>
                   decision.decision = "REJECT" /\ decision.confidence = "Medium"
            /\ overall < 40 * 100 =>
                   decision.decision = "REJECT" /\ decision.confidence = "High"

\* a portfolio whose overall score is exactly 60 is a MAYBE
C15_Witness ==
    /\ Reviewed
    /\ portfolio_score[1].overall = 60 * 100
    /\ recruiter_feedback[1].decision.decision = "MAYBE"
    /\ recruiter_feedback[1].decision.confidence = "Medium"

\* the index in S of the repository with the highest per-repo overall
\* score, the earliest one among equals
TopIndex(S) ==
    CHOOSE i \in S :
        \A j \in S :
            \/ analyzed_repos[j].score.overall < analyzed_repos[i].score.overall
            \/ /\ analyzed_repos[j].score.overall = analyzed_repos[i].score.overall
               /\ i <= j

\* the indices of the top-2 repositories, best first
TopTwo ==
    LET all == 1..Len(analyzed_repos)
        first == TopIndex(all)
    IN  IF Len(analyzed_repos) = 1 THEN <<first>>
        ELSE <<first, TopIndex(all \ {first})>>

QuestionTriple(name, lang) ==
    <<"Tell me about your role in developing " \o name \o ".",
      "What challenges did you face while building " \o name \o "?",
      "How do you handle " \o lang \o " best practices in your projects?">>

\* the questions for a non-empty portfolio when the i-th repository's
\* questions name the language langs[i]
ExpectedQuestions(langs) ==
    LET top == TopTwo
        triples == QuestionTriple(repositories[top[1]].name, langs[top[1]])
                   \o (IF Len(top) > 1
                       THEN QuestionTriple(repositories[top[2]].name, langs[top[2]])
                       ELSE <<>>)
    IN  Take(triples \o <<"How do you approach documentation in your projects?",
                          "Describe your development workflow and commit practices.">>,
             5)

FallbackQuestions ==
    <<"Can you walk us through your development experience?",
      "What projects have you worked on that aren't on GitHub?">>

\* the first key of the fetched language mapping of each repository, or
\* "Unknown" for an empty mapping
FirstFetchedLanguage ==
    [i \in 1..Len(repositories) |->
        IF get_languages(github, repositories[i]) = <<>> THEN "Unknown"
        ELSE get_languages(github, repositories[i])[1]]

\* C16 as stated: interview questions are the two fallback questions for
\* zero repositories; otherwise the first 5 of: 3 questions for each of the
\* top-2 repositories by per-repo overall score (descending, ties in list
\* order), each triple naming that repository and its primary language,
\* followed by the 2 generic questions.  The primary language is the
\* language field of the repository; a repository without one is left
\* out of the comparison.
C16_NamesPrimaryLanguage ==
    Reviewed =>
        IF analyzed_repos = <<>>
        THEN recruiter_feedback[1].interview_questions = FallbackQuestions
        ELSE \/ \E i \in Range(TopTwo) : repositories[i].language = ""
             \/ recruiter_feedback[1].interview_questions
                    = ExpectedQuestions([i \in 1..Len(repositories) |->
                                            repositories[i].language])

\* C16 amended: as above, but each triple names the repository and the
\* first language of its fetched language mapping, or "Unknown" when that
\* mapping is empty (no languages, or the languages fetch failed).
C16_NamesFirstFetchedLanguage ==
    Reviewed =>
        recruiter_feedback[1].interview_questions
            = IF analyzed_repos = <<>> THEN FallbackQuestions
              ELSE ExpectedQuestions(FirstFetchedLanguage)

\* three repositories of which the last two tie for the best score: the
\* questions are about the second, then the third
C16_Witness ==
    /\ Reviewed
    /\ Len(analyzed_repos) = 3
    /\ analyzed_repos[2].score.overall = analyzed_repos[3].score.overall
    /\ analyzed_repos[1].score.overall < analyzed_repos[2].score.overall
    /\ Len(recruiter_feedback[1].interview_questions) = 5
    /\ recruiter_feedback[1].interview_questions[1]
           = "Tell me about your role in developing repo2."
    /\ recruiter_feedback[1].interview_questions[4]
           = "Tell me about your role in developing repo3."

Planned == roadmap # <<>>

\* the indices of the repositories whose fetched README is empty
WithoutReadme == {i \in 1..Len(repositories) : FetchedReadme(i).length = 0}

FirstWithoutReadme == CHOOSE i \in WithoutReadme : \A j \in WithoutReadme : i <= j

\* C17: the immediate actions are, in this order and truncated to 4:
\* "Create your first public repository" iff the red flag "No public
\* repositories" is present; "Add README to X" iff some repository lacks a
\* README, X being the first such repository in list order; then always
\* "Pin your best repositories" and "Update your GitHub profile bio".
C17_ImmediateActions ==
    Planned =>
        roadmap[1].timeline.immediate
            = Take((IF "No public repositories" \in Range(portfolio_score[1].red_flags)
                    THEN <<"Create your first public repository">> ELSE <<>>)
                   \o (IF WithoutReadme # {}
                       THEN <<"Add README to " \o repositories[FirstWithoutReadme].name>>
                       ELSE <<>>)
                   \o <<"Pin your best repositories",
                        "Update your GitHub profile bio">>,
                   4)

\* the first repository has a README and two later ones have none: the
\* action names the second repository
C17_Witness ==
    /\ Planned
    /\ Len(repositories) = 3
    /\ WithoutReadme = {2, 3}
    /\ roadmap[1].timeline.immediate[1] = "Add README to repo2"
    /\ Len(roadmap[1].timeline.immediate) = 3

FocusSentence(component) ==
    CASE component = "documentation" -> "Improving documentation quality"
      [] component = "code_quality" -> "Enhancing code structure and best practices"
      [] component = "consistency" -> "Establishing regular contribution patterns"
      [] component = "impact" -> "Building projects with real-world impact"
      [] component = "depth" -> "Expanding technical skill diversity"

IterationOrder ==
    <<"documentation", "code_quality", "consistency", "impact", "depth">>

\* C18: priority_focus is the fixed sentence of the component with the
\* lowest score among documentation, code_quality, consistency, impact and
\* depth; among several lowest ones the earliest in that order is chosen,
\* so the empty portfolio yields the documentation sentence.
C18_PriorityFocus ==
    Planned =>
        LET components == portfolio_score[1].components
        IN  /\ \E i \in 1..5 :
                  /\ \A j \in 1..5 :
                        components[IterationOrder[i]] <= components[IterationOrder[j]]
                  /\ \A j \in 1..(i - 1) :
                        components[IterationOrder[j]] # components[IterationOrder[i]]
                  /\ roadmap[1].priority_focus = FocusSentence(IterationOrder[i])
            /\ analyzed_repos = <<>> =>
                  roadmap[1].priority_focus = "Improving documentation quality"

\* a non-empty portfolio whose documentation and impact tie for the lowest
\* score, below the other three: the focus is documentation
C18_Witness ==
    /\ Planned
    /\ analyzed_repos # <<>>
    /\ portfolio_score[1].components.documentation = portfolio_score[1].components.impact
    /\ \A c \in {"code_quality", "consistency", "depth"} :
           portfolio_score[1].components[c] > portfolio_score[1].components.impact
    /\ roadmap[1].priority_focus = "Improving documentation quality"

\* C19: estimated_impact has current_score equal to the overall of the
\* PortfolioScore passed in, potential_score = min(current + 30, 100) when
\* current < 50, min(current + 20, 100) when 50 <= current < 70 and
\* min(current + 10, 100) otherwise, and improvement = potential_score -
\* current_score; hence 0 <= improvement <= 30 and potential_score <= 100.
C19_EstimatedImpact ==
    Planned =>
        LET current == portfolio_score[1].overall
            estimate == roadmap[1].estimated_impact
        IN  /\ estimate.current_score = current
            /\ current < 50 * 100 =>
                   estimate.potential_score = Min(current + 30 * 100, Hundred)
            /\ (current >= 50 * 100 /\ current < 70 * 100) =>
                   estimate.potential_score = Min(current + 20 * 100, Hundred)
            /\ current >= 70 * 100 =>
                   estimate.potential_score = Min(current + 10 * 100, Hundred)
            /\ estimate.improvement = estimate.potential_score - estimate.current_score
            /\ estimate.improvement \in 0..(30 * 100)
            /\ estimate.potential_score <= Hundred

\* a portfolio scoring above 90: the potential score is capped at 100 and
\* the improvement is less than 10
C19_Witness ==
    /\ Planned
    /\ portfolio_score[1].overall > 90 * 100
    /\ roadmap[1].estimated_impact.potential_score = Hundred
    /\ roadmap[1].estimated_impact.improvement < 10 * 100

(***************************************************************************)
(* Properties of the lists of a report                                     *)
(***************************************************************************)
Reported == response # <<>> /\ response[1].status = 200

\* the strengths the rules match for the i-th repository, in rule order
MatchedStrengths(i) ==
    LET doc == analyzed_repos[i].documentation_analysis
    IN  (IF doc.quality_score > 70 THEN <<"Excellent documentation">>
         ELSE IF FetchedReadme(i).length > 0 THEN <<"Has README">> ELSE <<>>)
        \o (IF repositories[i].stargazers_count > 10
            THEN <<"Popular (" \o ToString(repositories[i].stargazers_count)
                       \o " stars)">>
            ELSE <<>>)
        \o (IF analyzed_repos[i].activity_analysis.is_active
            THEN <<"Actively maintained">> ELSE <<>>)
        \o (IF repositories[i].language # ""
            THEN <<"Built with " \o repositories[i].language>> ELSE <<>>)

\* the weaknesses the rules match for the i-th repository, in rule order
MatchedWeaknesses(i) ==
    (IF FetchedReadme(i).length = 0 THEN <<"Missing README">>
     ELSE IF FetchedReadme(i).length < 100 THEN <<"README too brief">>
     ELSE <<>>)
    \o (IF FetchedReadme(i).words \cap {"install", "setup", "getting started"} = {}
        THEN <<"No setup instructions">> ELSE <<>>)
    \o (IF ~analyzed_repos[i].activity_analysis.is_active
        THEN <<"Inactive repository">> ELSE <<>>)
    \o (IF Len(FetchedCommits(i)) < 5 THEN <<"Low commit activity">> ELSE <<>>)

\* how many analyzed repositories have a documentation quality score in S
DocQualityIn(S) ==
    Cardinality({i \in 1..Len(analyzed_repos) :
                    analyzed_repos[i].documentation_analysis.quality_score \in S})

MatchedPortfolioStrengths ==
    (IF Len(analyzed_repos) >= 5
     THEN <<"Strong portfolio with " \o ToString(Len(analyzed_repos))
                \o " repositories">>
     ELSE <<>>)
    \o (IF DocQualityIn(71..100) >= 3
        THEN <<"Multiple well-documented projects">> ELSE <<>>)
    \o (IF DistinctLanguages >= 3
        THEN <<"Demonstrates proficiency in " \o ToString(DistinctLanguages)
                   \o " programming languages">>
        ELSE <<>>)

MatchedRecommendations ==
    IF analyzed_repos = <<>>
    THEN <<"Start building public repositories",
           "Contribute to open source projects">>
    ELSE (IF 2 * DocQualityIn(0..49) > Len(analyzed_repos)
          THEN <<"Improve README documentation">> ELSE <<>>)
         \o (IF \E i \in 1..Len(analyzed_repos) :
                    ~analyzed_repos[i].activity_analysis.is_active
             THEN <<"Show recent activity">> ELSE <<>>)
         \o <<"Pin your best repositories", "Add a detailed bio">>

MatchedShortTermGoals ==
    (IF DocQualityIn(0..49) > 0
     THEN <<"Improve documentation for 3 repositories">> ELSE <<>>)
    \o <<"Establish consistent commit pattern",
         "Start a new project in a different language">>

\* C20: in every report the lists respect their maxima: each repository's
\* strengths and weaknesses and the portfolio strengths have at most 3
\* entries, interview questions at most 5, recruiter recommendations at
\* most 4, immediate actions at most 4 and short-term goals at most 3;
\* each list is the prefix, in rule order, of the entries its rules matched.
C20_ListCaps ==
    Reported =>
        LET report == response[1].body
            goals == report.roadmap.timeline.short_term
        IN  /\ \A i \in 1..Len(report.repositories) :
                  /\ Len(report.repositories[i].strengths) <= 3
                  /\ Len(report.repositories[i].weaknesses) <= 3
                  /\ report.repositories[i].strengths = Take(MatchedStrengths(i), 3)
                  /\ report.repositories[i].weaknesses = Take(MatchedWeaknesses(i), 3)
            /\ Len(report.score.strengths) <= 3
            /\ report.score.strengths = Take(MatchedPortfolioStrengths, 3)
            /\ Len(report.recruiter_feedback.interview_questions) <= 5
            /\ report.recruiter_feedback.interview_questions
                   = IF analyzed_repos = <<>> THEN FallbackQuestions
                     ELSE ExpectedQuestions(FirstFetchedLanguage)
            /\ Len(report.recruiter_feedback.recommendations) <= 4
            /\ report.recruiter_feedback.recommendations
                   = Take(MatchedRecommendations, 4)
            /\ Len(report.roadmap.timeline.immediate) <= 4
            /\ Len(goals) <= 3
            /\ [i \in 1..Len(goals) |-> goals[i].goal]
                   = Take(MatchedShortTermGoals, 3)

\* a report with a repository that matched four strengths and one that
\* matched four weaknesses, each list cut to three, and five questions
C20_Witness ==
    /\ Reported
    /\ \E i \in 1..Len(analyzed_repos) :
           /\ Len(MatchedStrengths(i)) = 4
           /\ Len(response[1].body.repositories[i].strengths) = 3
    /\ \E i \in 1..Len(analyzed_repos) :
           /\ Len(MatchedWeaknesses(i)) = 4
           /\ response[1].body.repositories[i].weaknesses
                  = <<"Missing README", "No setup instructions", "Inactive repository">>
    /\ Len(response[1].body.recruiter_feedback.interview_questions) = 5

(***************************************************************************)
(* Properties of the rejection of a username and of the report's timestamp *)
(***************************************************************************)
\* the request with an invalid username has been answered
InvalidAnswered == pc = "done" /\ ~validate_github_username(username)

\* no fetch and no analysis step ran for a request with an invalid username
C21_NothingRanBeforeRejection ==
    InvalidAnswered =>
        /\ user_data = <<>>
        /\ repositories = <<>>
        /\ analyzed_repos = <<>>
        /\ fetched = NoFetch
        /\ portfolio_score = <<>>
        /\ recruiter_feedback = <<>>
        /\ roadmap = <<>>

\* C21: a request whose username fails validate_github_username is
\* rejected before any collaborator fetch or analysis step runs, and the
\* response the caller receives is the status-400 "Invalid GitHub
\* username" rejection, not a 500 internal failure.
C21_InvalidUsernameRejected ==
    /\ C21_NothingRanBeforeRejection
    /\ InvalidAnswered =>
           /\ response[1].status = 400
           /\ response[1].detail = "Invalid GitHub username"

\* C22: the analyzed_at timestamp of each composed report is a time within
\* that request, not earlier than the moment the request started; a
\* request served later never receives a timestamp that predates its start.
C22_AnalyzedAtWithinRequest ==
    Reported =>
        /\ response[1].body.analyzed_at >= t_start
        /\ response[1].body.analyzed_at <= clock

(***************************************************************************)
(* Properties of the potential score over two portfolio scores             *)
(***************************************************************************)
\* two calls have been made; a is the earlier score and b the later one
TwoEstimates == previous # <<>> /\ roadmap # <<>>

\* the band of a score: below 50, from 50 to below 70, from 70
Band(overall) ==
    IF overall < 50 * 100 THEN 1 ELSE IF overall < 70 * 100 THEN 2 ELSE 3

\* C23 as stated: potential_score is monotonic non-decreasing in the
\* current overall score: for any two portfolio scores a <= b in [0,100],
\* potential_score(a) <= potential_score(b).
C23_PotentialMonotonic ==
    TwoEstimates =>
        (previous[1].overall <= portfolio_score[1].overall =>
            previous[1].estimated_impact.potential_score
                <= roadmap[1].estimated_impact.potential_score)

\* C23 amended: for two portfolio scores a <= b in [0,100] of the same band
\* (below 50, from 50 to below 70, from 70), potential_score(a) <=
\* potential_score(b); for a <= b of different bands potential_score(b)
\* can be lower, by less than 10 points.
C23_MonotonicWithinBand ==
    TwoEstimates =>
        LET a == previous[1].overall
            b == portfolio_score[1].overall
            potential_a == previous[1].estimated_impact.potential_score
            potential_b == roadmap[1].estimated_impact.potential_score
        IN  a <= b =>
                /\ Band(a) = Band(b) => potential_a <= potential_b
                /\ potential_a - potential_b < 10 * 100

\* 49.99 is estimated at 79.99 and 50 at 70: the potential score drops
\* across the band edge
C23_Witness ==
    /\ TwoEstimates
    /\ previous[1].overall = 4999
    /\ portfolio_score[1].overall = 5000
    /\ previous[1].estimated_impact.potential_score = 7999
    /\ roadmap[1].estimated_impact.potential_score = 7000

====
